---- MODULE Spec2Model ----
(***************************************************************************)
(* Billing-metered job execution of the GPU compute platform:              *)
(*   - the wallet ledger (backend/app/services/billing.py),                *)
(*   - the job record store (backend/app/services/job_service.py),         *)
(*   - the worker's monitoring loop (worker/worker/tasks/gpu_tasks.py).    *)
(*                                                                         *)
(* Money.  Wallet.balance, Wallet.reserved, Transaction.amount and         *)
(* Job.total_cost are Numeric(10, 2) columns: a stored value is a whole    *)
(* number of cents.  Values computed in Python before they are stored are  *)
(* Decimals with more digits (the per-minute cost is                       *)
(* Decimal(str(0.50 / 60)) = 0.008333333333333333), so they are kept in    *)
(* micro-credits (1e-6 credit) and rounded to cents when written, as the   *)
(* database does.                                                          *)
(*                                                                         *)
(* Sessions.  Every request has its own SQLAlchemy session.  An ORM object *)
(* that is already loaded in the session keeps its loaded attributes when  *)
(* a later query returns the same row (the query was not given             *)
(* populate_existing()), also when that query is SELECT ... FOR UPDATE.    *)
(* A commit expires the session's objects; the next attribute access       *)
(* reloads them.  The database is PostgreSQL (DATABASE_URL), whose row     *)
(* lock makes a second FOR UPDATE reader or writer wait.                   *)
(***************************************************************************)
EXTENDS Integers, Sequences, FiniteSets, TLC

\* ------------------------------------------------------------------ bounds
MaxRequests == 3      \* requests started in one behaviour of the ledger specs
MaxClock == 3         \* clock values of the job-store specification
MaxDeliveries == 3    \* status updates delivered in the job-store specification
MaxCents == 2         \* largest initial balance, in cents, of a monitored run
ShortTimeout == 60    \* timeout_seconds of a run that ends by its deadline
LongTimeout == 125    \* timeout_seconds of a run that can be billed twice
MaxLatency == 1       \* seconds a heartbeat call can take
MaxHeartbeats == 121  \* one-minute heartbeats of a metered run
MeterBalance == 100   \* initial balance, in cents, of a metered run
MaxStops == 4         \* calls of stop_container on one container

\* ------------------------------------------------------- program constants
MicroPerCent == 10000       \* one cent (Numeric scale 2) in micro-credits
CostMicro == 8333           \* CREDITS_PER_MINUTE = 0.50 / 60, in micro-credits
GuestMinBalance == 100      \* deps.py: user.wallet.balance < 1.0
GuestBalance == 100000      \* deps.py: balance = 1000.0
SleepSeconds == 5           \* gpu_tasks.py: time.sleep(5)
BillingInterval == 60       \* gpu_tasks.py: billing_interval
SecondsPerMinute == 60      \* gpu_tasks.py: .seconds // 60
MinimumBalance == 50        \* config.py: MINIMUM_BALANCE_TO_START = 0.50

Slots == {"r1", "r2"}
NoSlot == "none"

PENDING == "pending"
PREPARING == "preparing"
RUNNING == "running"
COMPLETED == "completed"
FAILED == "failed"
CANCELLED == "cancelled"
KILLED_NO_CREDITS == "killed_no_credits"

JobStatus == {PENDING, PREPARING, RUNNING, COMPLETED, FAILED, CANCELLED,
              KILLED_NO_CREDITS}

VARIABLES
    now,          \* datetime.utcnow(), in seconds
    wallet,       \* the wallets row of the job's owner
    txns,         \* the transactions rows of that wallet, in commit order
    job,          \* the jobs row
    req,          \* the backend requests in progress, one per slot
    lockHolder,   \* the request holding the wallet row lock
    started,      \* number of requests started
    ledger,       \* history: what the succeeded ledger calls add up to
    subpc,        \* position of the submission (POST /jobs) of the job
    lastMsg,      \* history: the status update applied last, if nothing else
                  \*          has written the job since
    delivered,    \* number of status updates the webhook has received
    wpc,          \* position of the worker in execute_gpu_job
    container,    \* the job's container, as Docker reports it
    start_time,   \* execute_gpu_job: start_time
    last_billing_check,   \* execute_gpu_job: last_billing_check
    timeout_seconds,      \* execute_gpu_job: timeout_seconds
    runtime_minutes,      \* execute_gpu_job: runtime_minutes
    hbLog,        \* history: the heartbeats the worker has made
    statusLog,    \* history: the status updates the worker has sent
    stopCalls,    \* history: calls of stop_container
    cleanupCalls, \* history: calls of cleanup_container
    savedLogs,    \* history: _save_logs has written the job's log file
    cancelled,    \* history: the user's cancel of the job was accepted
    cancelResponse,   \* the answer to the last POST /jobs/{id}/cancel/
    lastPost          \* history: the secret of the webhook post handled last and
                      \*          whether verify_worker refused it

ledgerVars == <<wallet, txns, req, lockHolder, started, ledger>>
storeVars == <<job, subpc, lastMsg, delivered>>
workerVars == <<wpc, container, start_time, last_billing_check, timeout_seconds,
                runtime_minutes, hbLog, statusLog, stopCalls, cleanupCalls, savedLogs>>
runVars == <<container, start_time, last_billing_check, timeout_seconds,
             runtime_minutes, hbLog, statusLog, stopCalls, cleanupCalls, savedLogs>>
vars == <<now, wallet, txns, job, req, lockHolder, started, ledger,
          subpc, lastMsg, delivered, wpc, container, start_time,
          last_billing_check, timeout_seconds, runtime_minutes, hbLog,
          statusLog, stopCalls, cleanupCalls, savedLogs, cancelled, cancelResponse, lastPost>>

\* ---------------------------------------------------------------- money
\* Numeric(10, 2): the database rounds a value to cents, half away from zero.
RoundCents(micro) ==
    IF micro >= 0
    THEN (micro + (MicroPerCent \div 2)) \div MicroPerCent
    ELSE 0 - (((0 - micro) + (MicroPerCent \div 2)) \div MicroPerCent)

Micro(cents) == cents * MicroPerCent

\* Wallet.available_balance, of a wallet object whose attributes are in cents
AvailableBalance(w) == w.balance - w.reserved

NoWalletRow == [exists |-> FALSE, balance |-> 0, reserved |-> 0, version |-> 0]

\* Wallet(user_id=...): balance 0.00, reserved 0.00, version 1
NewWallet(balance) ==
    [exists |-> TRUE, balance |-> balance, reserved |-> 0, version |-> 1]

\* ---------------------------------------------------------------- ledger
\* debit_for_job: if wallet.available_balance < amount: raise InsufficientCreditsError
InsufficientCredits(w, amount) == Micro(AvailableBalance(w)) < amount

\* debit_for_job: wallet.balance -= amount; wallet.version += 1; commit.
\* w is the session's wallet object; the UPDATE writes the two changed columns.
DebitedRow(row, w, amount) ==
    [row EXCEPT !.balance = RoundCents(Micro(w.balance) - amount),
                !.version = w.version + 1]

\* debit_for_job: Transaction(type=DEBIT, amount=-amount, ...)
DebitTransaction(w, amount) ==
    [type |-> "debit",
     amount |-> RoundCents(0 - amount),
     balance_before |-> w.balance,
     balance_after |-> RoundCents(Micro(w.balance) - amount),
     job_id |-> "job"]

\* add_credits: wallet.balance += amount; wallet.version += 1; commit
CreditedRow(row, w, amount) ==
    [row EXCEPT !.balance = RoundCents(Micro(w.balance) + amount),
                !.version = w.version + 1]

\* add_credits: Transaction(type=CREDIT, amount=amount, ...)
CreditTransaction(w, amount) ==
    [type |-> "credit",
     amount |-> RoundCents(amount),
     balance_before |-> w.balance,
     balance_after |-> RoundCents(Micro(w.balance) + amount),
     job_id |-> "none"]

\* ------------------------------------------------------- check_and_bill
NotFoundContinues == [should_continue |-> TRUE, balance |-> 0]

\* return False, Decimal("0.00") when the job or its wallet is missing
NotFoundResult == [should_continue |-> FALSE, balance |-> 0]

RefusedContinues(w) == [should_continue |-> TRUE, balance |-> w.balance]

\* except InsufficientCreditsError: return False, wallet.balance
RefusedResult(w) == [should_continue |-> FALSE, balance |-> w.balance]

KillSwitchBelowZero(w) == AvailableBalance(w) < 0

\* Kill switch: if wallet.available_balance <= 0
KillSwitch(w) == AvailableBalance(w) <= 0

\* after the debit: (False, balance) if the kill switch applies, else (True, balance)
BilledResult(w) == [should_continue |-> ~KillSwitch(w), balance |-> w.balance]

\* job.total_cost += cost; job.runtime_seconds = runtime_minutes * 60; commit.
\* loaded is the job as the session reloaded it after the debit's commit.
BilledJob(row, loaded, minutes) ==
    [row EXCEPT !.total_cost = RoundCents(Micro(loaded.total_cost) + CostMicro),
                !.runtime_seconds = minutes * 60]

\* ------------------------------------------------------------- job store
\* An optional column or argument is a set: {} is None, {v} is the value v.
Val(opt) == CHOOSE v \in opt : TRUE

\* Job.is_terminal
IsTerminal(j) == j.status \in {COMPLETED, FAILED, CANCELLED, KILLED_NO_CREDITS}

\* Job.is_billable
IsBillable(j) == j.status \in {PREPARING, RUNNING}

NoJobRow ==
    [exists |-> FALSE, status |-> PENDING, queued_at |-> {}, started_at |-> {},
     completed_at |-> {}, runtime_seconds |-> 0, total_cost |-> 0,
     container_id |-> "", error_message |-> "", exit_code |-> {}]

\* Job(user_id=..., script_path="", ...): status PENDING, runtime 0, cost 0.00
NewJob == [NoJobRow EXCEPT !.exists = TRUE]

\* The arguments of JobService.update_status ("" is a falsy container_id or
\* error_message: None or the empty string).
StatusUpdate(status, container_id, error_message, runtime_seconds) ==
    [status |-> status, container_id |-> container_id,
     error_message |-> error_message, runtime_seconds |-> runtime_seconds,
     exit_code |-> {}]

\* if status == RUNNING: if not job.started_at: job.started_at = now
StartedAt(j, t) == IF j.started_at = {} THEN {t} ELSE j.started_at

\* elif status in (COMPLETED, FAILED, CANCELLED, KILLED_NO_CREDITS): job.completed_at = now
CompletedAt(j, t) == {t}

\* JobService.update_status, on a job that exists, at time t
UpdateStatus(j, m, t) ==
    LET j1 == [j EXCEPT
                 !.status = m.status,
                 !.container_id = IF m.container_id # "" THEN m.container_id ELSE @,
                 !.error_message = IF m.error_message # "" THEN m.error_message ELSE @,
                 !.runtime_seconds = IF m.runtime_seconds # {}
                                     THEN Val(m.runtime_seconds) ELSE @,
                 !.exit_code = IF m.exit_code # {} THEN m.exit_code ELSE @]
    IN  CASE m.status = PENDING -> [j1 EXCEPT !.queued_at = {t}]
          [] m.status = RUNNING -> [j1 EXCEPT !.started_at = StartedAt(j, t)]
          [] m.status \in {COMPLETED, FAILED, CANCELLED, KILLED_NO_CREDITS} ->
                 [j1 EXCEPT !.completed_at = CompletedAt(j, t)]
          [] OTHER -> j1

CancelRegardless(j) == "cancelled"

\* JobService.cancel_job by the job's owner: "error" is the ValueError
CancelOutcome(j) == IF IsTerminal(j) THEN "error" ELSE "cancelled"

\* The status updates execute_gpu_job sends (_update_job_status call sites)
MsgPreparing == StatusUpdate(PREPARING, "", "", {})
MsgRunning == StatusUpdate(RUNNING, "c1", "", {})
MsgTimeout == StatusUpdate(FAILED, "", "Timeout exceeded", {})
MsgKilled == StatusUpdate(KILLED_NO_CREDITS, "", "", {})
MsgOom == StatusUpdate(FAILED, "", "Out of Memory (OOM)", {})
MsgCompleted(runtime) == StatusUpdate(COMPLETED, "", "", {runtime})
MsgExit(code, runtime) ==
    StatusUpdate(FAILED, "", "Exit code: " \o ToString(code), {runtime})
MsgException == StatusUpdate(FAILED, "", "exception", {})

WorkerMessages ==
    {MsgPreparing, MsgRunning, MsgTimeout, MsgKilled, MsgOom, MsgCompleted(60),
     MsgExit(1, 60), MsgException}

\* ---------------------------------------------------------------- requests
\* settings.WORKER_SECRET of the backend, and the secrets a post may carry
WORKER_SECRET == "configured"
Secrets == {WORKER_SECRET, "other"}

AnySecretAccepted(secret) == TRUE

\* verify_worker_secret: secret == settings.WORKER_SECRET
verify_worker_secret(secret) == secret = WORKER_SECRET

\* what the endpoint's first statement, verify_worker, makes of a post
NoPost == [secret |-> "none", refused |-> FALSE]
Posted(secret) == [secret |-> secret, refused |-> ~verify_worker_secret(secret)]

\* verify_worker raises HTTPException(401, "Invalid worker secret")
Unauthorized == [should_continue |-> FALSE, balance |-> 0, status |-> 401]

IdleRequest ==
    [kind |-> "idle", pc |-> "idle", w |-> NoWalletRow, j |-> NoJobRow,
     amount |-> 0, minutes |-> 0, debited |-> FALSE, result |-> NotFoundResult]

InitLedgerHistory(balance) == [base |-> balance, sum |-> 0, count |-> 0]

\* ======================================================= ledger actions
\* The steps of one request.  A step is one database round trip of the
\* handler together with the Python code up to the next one.

Set(s, r) == req' = [req EXCEPT ![s] = r]

\* what a succeeded ledger call adds to the history
Succeeded(t) == [ledger EXCEPT !.sum = @ + t.amount, !.count = @ + 1]

\* POST /webhooks/billing-heartbeat arrives: verify_worker(worker_secret),
\* then check_and_bill(job_id, minutes)
StartHeartbeat(s, minutes, secret) ==
    /\ req[s].kind = "idle"
    /\ started < MaxRequests
    /\ started' = started + 1
    /\ IF verify_worker_secret(secret)
       THEN Set(s, [IdleRequest EXCEPT !.kind = "hb", !.pc = "hb_job",
                                       !.amount = CostMicro, !.minutes = minutes])
       ELSE Set(s, [IdleRequest EXCEPT !.kind = "hb", !.pc = "done",
                                       !.minutes = minutes, !.result = Unauthorized])
    /\ lastPost' = Posted(secret)
    /\ UNCHANGED <<now, wallet, txns, lockHolder, ledger, storeVars, workerVars, cancelled, cancelResponse>>

\* check_and_bill: job = query(Job).first(); if not job: return False, 0.00
HbLoadJob(s) ==
    /\ req[s].pc = "hb_job"
    /\ IF job.exists
       THEN Set(s, [req[s] EXCEPT !.pc = "hb_wallet", !.j = job])
       ELSE Set(s, [req[s] EXCEPT !.pc = "done", !.result = NotFoundResult])
    /\ UNCHANGED <<now, wallet, txns, lockHolder, started, ledger, storeVars, workerVars, cancelled, cancelResponse, lastPost>>

\* check_and_bill: wallet = self.get_wallet(job.user_id); if not wallet: return False, 0.00
HbGetWallet(s) ==
    /\ req[s].pc = "hb_wallet"
    /\ IF wallet.exists
       THEN Set(s, [req[s] EXCEPT !.pc = "debit_lock", !.w = wallet])
       ELSE Set(s, [req[s] EXCEPT !.pc = "done", !.result = NotFoundResult])
    /\ UNCHANGED <<now, wallet, txns, lockHolder, started, ledger, storeVars, workerVars, cancelled, cancelResponse, lastPost>>

\* debit_for_job: SELECT ... FOR UPDATE waits for the row lock and returns the
\* row; the wallet object is already loaded in the session, so its balance,
\* reserved and version stay as get_wallet read them.  Then the funds check:
\* InsufficientCreditsError is caught by check_and_bill, which returns, and the
\* session closes and gives the lock back.
DebitLock(s) ==
    /\ req[s].pc = "debit_lock"
    /\ lockHolder = NoSlot
    /\ IF InsufficientCredits(req[s].w, req[s].amount)
       THEN /\ Set(s, [req[s] EXCEPT !.pc = "done", !.result = RefusedResult(req[s].w)])
            /\ UNCHANGED lockHolder
       ELSE /\ Set(s, [req[s] EXCEPT !.pc = "debit_commit"])
            /\ lockHolder' = s
    /\ UNCHANGED <<now, wallet, txns, started, ledger, storeVars, workerVars, cancelled, cancelResponse, lastPost>>

\* debit_for_job: balance -= amount, version += 1, add(transaction), commit
DebitCommit(s) ==
    /\ req[s].pc = "debit_commit"
    /\ wallet' = DebitedRow(wallet, req[s].w, req[s].amount)
    /\ txns' = Append(txns, DebitTransaction(req[s].w, req[s].amount))
    /\ ledger' = Succeeded(DebitTransaction(req[s].w, req[s].amount))
    /\ lockHolder' = NoSlot
    /\ Set(s, [req[s] EXCEPT !.pc = "hb_job_read", !.debited = TRUE])
    /\ UNCHANGED <<now, started, storeVars, workerVars, cancelled, cancelResponse, lastPost>>

\* check_and_bill: job.total_cost += cost reads the job, which the commit has
\* expired: the session reloads the row
HbReloadJob(s) ==
    /\ req[s].pc = "hb_job_read"
    /\ Set(s, [req[s] EXCEPT !.pc = "hb_job_write", !.j = job])
    /\ UNCHANGED <<now, wallet, txns, lockHolder, started, ledger, storeVars, workerVars, cancelled, cancelResponse, lastPost>>

\* check_and_bill: job.total_cost += cost; job.runtime_seconds = ...; commit
HbWriteJob(s) ==
    /\ req[s].pc = "hb_job_write"
    /\ job' = BilledJob(job, req[s].j, req[s].minutes)
    /\ lastMsg' = {}
    /\ Set(s, [req[s] EXCEPT !.pc = "hb_refresh"])
    /\ UNCHANGED <<now, wallet, txns, lockHolder, started, ledger, subpc, delivered,
                   workerVars, cancelled, cancelResponse, lastPost>>

\* check_and_bill: self.db.refresh(wallet); kill switch; return
HbRefresh(s) ==
    /\ req[s].pc = "hb_refresh"
    /\ Set(s, [req[s] EXCEPT !.pc = "done", !.w = wallet, !.result = BilledResult(wallet)])
    /\ UNCHANGED <<now, wallet, txns, lockHolder, started, ledger, storeVars, workerVars, cancelled, cancelResponse, lastPost>>

\* POST /wallet/topup arrives; its dependency get_current_user runs first:
\* the guest's wallet is loaded, created with 1000.0 if missing, and set to
\* 1000.0 if its balance is below 1.0 (an UPDATE, which waits for the row lock)
StartTopUp(s, amount) ==
    /\ req[s].kind = "idle"
    /\ started < MaxRequests
    /\ started' = started + 1
    /\ IF ~wallet.exists
       THEN /\ wallet' = NewWallet(GuestBalance)
            /\ ledger' = InitLedgerHistory(GuestBalance)
            /\ Set(s, [IdleRequest EXCEPT !.kind = "topup", !.pc = "tu_wallet",
                                          !.amount = amount])
       ELSE IF wallet.balance < GuestMinBalance
       THEN /\ lockHolder = NoSlot
            /\ wallet' = [wallet EXCEPT !.balance = GuestBalance]
            /\ UNCHANGED ledger
            /\ Set(s, [IdleRequest EXCEPT !.kind = "topup", !.pc = "tu_wallet",
                                          !.amount = amount])
       ELSE /\ UNCHANGED <<wallet, ledger>>
            /\ Set(s, [IdleRequest EXCEPT !.kind = "topup", !.pc = "tu_wallet",
                                          !.amount = amount, !.w = wallet])
    /\ UNCHANGED <<now, txns, lockHolder, storeVars, workerVars, cancelled, cancelResponse, lastPost>>

\* add_credits (wallet.py): wallet = billing.get_wallet(current_user.id).
\* The query returns the guest's wallet; if get_current_user left it loaded
\* (it committed nothing), the object keeps the attributes read there.
TuGetWallet(s) ==
    /\ req[s].pc = "tu_wallet"
    /\ Set(s, [req[s] EXCEPT !.pc = "credit_lock",
                             !.w = IF req[s].w.exists THEN @ ELSE wallet])
    /\ UNCHANGED <<now, wallet, txns, lockHolder, started, ledger, storeVars, workerVars, cancelled, cancelResponse, lastPost>>

\* BillingService.add_credits: SELECT ... FOR UPDATE (see DebitLock)
CreditLock(s) ==
    /\ req[s].pc = "credit_lock"
    /\ lockHolder = NoSlot
    /\ lockHolder' = s
    /\ Set(s, [req[s] EXCEPT !.pc = "credit_commit"])
    /\ UNCHANGED <<now, wallet, txns, started, ledger, storeVars, workerVars, cancelled, cancelResponse, lastPost>>

\* BillingService.add_credits: balance += amount, version += 1, add, commit
CreditCommit(s) ==
    /\ req[s].pc = "credit_commit"
    /\ wallet' = CreditedRow(wallet, req[s].w, req[s].amount)
    /\ txns' = Append(txns, CreditTransaction(req[s].w, req[s].amount))
    /\ ledger' = Succeeded(CreditTransaction(req[s].w, req[s].amount))
    /\ lockHolder' = NoSlot
    /\ Set(s, [req[s] EXCEPT !.pc = "done"])
    /\ UNCHANGED <<now, started, storeVars, workerVars, cancelled, cancelResponse, lastPost>>

\* the response is sent and the session closed
Respond(s) ==
    /\ req[s].pc = "done"
    /\ Set(s, IdleRequest)
    /\ UNCHANGED <<now, wallet, txns, lockHolder, started, ledger, storeVars, workerVars, cancelled, cancelResponse, lastPost>>

\* ===================================================== job-store actions
\* get_current_user, the dependency of every user endpoint: the guest's
\* wallet is created with 1000.0 if it is missing and set to 1000.0 if its
\* balance is below 1.0; no Transaction is written
GuestWallet(w) ==
    IF ~w.exists THEN NewWallet(GuestBalance)
    ELSE IF w.balance < GuestMinBalance THEN [w EXCEPT !.balance = GuestBalance]
    ELSE w

\* BillingService.can_start_job / Wallet.can_start_job
CanStartJob(w) == w.exists /\ AvailableBalance(w) >= MinimumBalance

\* create_job (POST /jobs): get_current_user, then billing.can_start_job;
\* 402 if it is false
Admit ==
    /\ subpc = "none"
    /\ lockHolder = NoSlot
    /\ wallet' = GuestWallet(wallet)
    /\ ledger' = IF wallet.exists THEN ledger ELSE InitLedgerHistory(GuestBalance)
    /\ subpc' = IF CanStartJob(GuestWallet(wallet)) THEN "admitted" ELSE "rejected"
    /\ UNCHANGED <<now, txns, req, lockHolder, started, job, lastMsg, delivered,
                   workerVars, cancelled, cancelResponse, lastPost>>

\* create_job (POST /jobs): JobService.create_job inserts the row
CreateJob ==
    /\ subpc = "admitted"
    /\ job' = NewJob
    /\ subpc' = "created"
    /\ lastMsg' = {}
    /\ UNCHANGED <<now, ledgerVars, delivered, workerVars, cancelled, cancelResponse, lastPost>>

\* create_job (POST /jobs): saving the script, the log file or the dataset
\* raises (OSError, ValueError); the request is answered 503 / 500 / 404
SaveFilesFail ==
    /\ subpc = "created"
    /\ subpc' = "io_error"
    /\ UNCHANGED <<now, ledgerVars, job, lastMsg, delivered, workerVars,
                   cancelled, cancelResponse, lastPost>>

\* create_job (POST /jobs): the files are saved; job_service.queue_job(job.id)
QueueJob ==
    /\ subpc = "created"
    /\ job' = UpdateStatus(job, StatusUpdate(PENDING, "", "", {}), now)
    /\ subpc' = "queued"
    /\ lastMsg' = {}
    /\ UNCHANGED <<now, ledgerVars, delivered, workerVars, cancelled, cancelResponse, lastPost>>

\* create_job (POST /jobs): celery_app.send_task(...) puts the task on the
\* gpu_jobs queue (ok) or raises, which is printed and ignored; return job
Dispatch(ok) ==
    /\ subpc = "queued"
    /\ subpc' = IF ok THEN "sent" ELSE "unsent"
    /\ UNCHANGED <<now, ledgerVars, job, lastMsg, delivered, workerVars,
                   cancelled, cancelResponse, lastPost>>

\* POST /webhooks/job-status: verify_worker(worker_secret), then update_status
WebhookJobStatus(m, secret) ==
    /\ subpc = "sent"
    /\ delivered < MaxDeliveries
    /\ delivered' = delivered + 1
    /\ lastPost' = Posted(secret)
    /\ IF verify_worker_secret(secret) /\ job.exists
       THEN /\ job' = UpdateStatus(job, m, now)
            /\ lastMsg' = {m}
       ELSE UNCHANGED <<job, lastMsg>>
    /\ UNCHANGED <<now, ledgerVars, subpc, workerVars, cancelled, cancelResponse>>

\* POST /jobs/{id}/cancel/ : get_current_user, JobService.cancel_job and the
\* endpoint's answer (404 no such job, 403 PermissionError, 400 ValueError,
\* 200 the job)
CancelJob(owner) ==
    /\ lockHolder = NoSlot
    /\ wallet' = GuestWallet(wallet)
    /\ ledger' = IF wallet.exists THEN ledger ELSE InitLedgerHistory(GuestBalance)
    /\ cancelResponse' = IF ~job.exists THEN "not_found"
                         ELSE IF ~owner THEN "forbidden"
                         ELSE IF CancelOutcome(job) = "error" THEN "bad_request"
                         ELSE "ok"
    /\ IF job.exists /\ owner /\ CancelOutcome(job) = "cancelled"
       THEN /\ job' = UpdateStatus(job, StatusUpdate(CANCELLED, "", "", {}), now)
            /\ lastMsg' = {}
            /\ cancelled' = TRUE
       ELSE UNCHANGED <<job, lastMsg, cancelled>>
    /\ UNCHANGED <<now, txns, req, lockHolder, started, subpc, delivered,
                   workerVars, lastPost>>

\* time passes
Tick ==
    /\ now < MaxClock
    /\ now' = now + 1
    /\ UNCHANGED <<ledgerVars, storeVars, workerVars, cancelled, cancelResponse, lastPost>>

NoContainer == [exists |-> FALSE, running |-> FALSE, exit_code |-> {}, oom_killed |-> FALSE]

\* the worker has no task
WorkerIdle ==
    /\ wpc = "idle"
    /\ container = NoContainer
    /\ start_time = 0
    /\ last_billing_check = 0
    /\ timeout_seconds = 0
    /\ runtime_minutes = 0
    /\ hbLog = <<>>
    /\ statusLog = <<>>
    /\ stopCalls = 0
    /\ cleanupCalls = 0
    /\ savedLogs = FALSE
    /\ cancelled = FALSE
    /\ cancelResponse = "none"
    /\ lastPost = NoPost

JobInit ==
    /\ now = 0
    /\ wallet = NewWallet(0)
    /\ txns = <<>>
    /\ job = NoJobRow
    /\ req = [s \in Slots |-> IdleRequest]
    /\ lockHolder = NoSlot
    /\ started = 0
    /\ ledger = InitLedgerHistory(0)
    /\ subpc = "none"
    /\ lastMsg = {}
    /\ delivered = 0
    /\ WorkerIdle

JobNext ==
    \/ Admit
    \/ CreateJob
    \/ SaveFilesFail
    \/ QueueJob
    \/ \E ok \in BOOLEAN : Dispatch(ok)
    \/ \E m \in WorkerMessages : WebhookJobStatus(m, WORKER_SECRET)
    \/ \E owner \in BOOLEAN : CancelJob(owner)
    \/ Tick

JobSpec == JobInit /\ [][JobNext]_vars

\* ------------------------------------------------------------------- C3
\* C3: once the job's status is terminal, no later operation changes it.
TerminalImmutable == [][IsTerminal(job) => job'.status = job.status]_vars

\* ------------------------------------------------------------------ C10
\* C10: completed_at is set if and only if the status is terminal.
CompletedAtIffTerminal == job.exists => ((job.completed_at # {}) <=> IsTerminal(job))

\* ------------------------------------------------------------------- C9
\* C9: a status update that repeats the one applied just before leaves the
\* job as it was (status and every timestamp), and started_at, once set, is
\* never overwritten.
ReplayIsIdempotent ==
    [][/\ (delivered' # delivered /\ lastMsg # {} /\ lastMsg' = lastMsg) => job' = job
       /\ (job.started_at # {}) => job'.started_at = job.started_at]_vars

\* ------------------------------------------------------------------ C11
\* C11: a cancel by the owner moves a job in PENDING, PREPARING or RUNNING to
\* CANCELLED; on a terminal job it is answered with an error (400) and the
\* job row stays as it was; a cancel by another user is rejected (403) and
\* the job row stays as it was.
CancelJobContract ==
    [][\A owner \in BOOLEAN : (job.exists /\ CancelJob(owner)) =>
          /\ (owner /\ job.status \in {PENDING, PREPARING, RUNNING}) =>
                (job'.status = CANCELLED /\ cancelResponse' = "ok")
          /\ (owner /\ IsTerminal(job)) =>
                (job' = job /\ cancelResponse' = "bad_request")
          /\ ~owner => (job' = job /\ cancelResponse' = "forbidden")]_vars

\* the owner's cancel of a completed job was refused
CancelRefusedOnTerminal ==
    /\ cancelResponse = "bad_request"
    /\ job.status = COMPLETED /\ job.completed_at # {}

\* ========================================================= submission
\* the guest's wallet before POST /jobs: missing, or holding one of these
\* balances (in cents)
SubmitInit ==
    /\ now = 0
    /\ \E w \in {NoWalletRow} \cup {NewWallet(b) : b \in {0, 40, 50, 150}} :
          /\ wallet = w
          /\ ledger = InitLedgerHistory(w.balance)
    /\ txns = <<>>
    /\ job = NoJobRow
    /\ req = [s \in Slots |-> IdleRequest]
    /\ lockHolder = NoSlot
    /\ started = 0
    /\ subpc = "none"
    /\ lastMsg = {}
    /\ delivered = 0
    /\ WorkerIdle

SubmitSpec == SubmitInit /\ [][JobNext]_vars

\* the backend and the worker go on when they can; a user need not cancel
\* and nothing forces send_task to succeed
SubmitFairSpec ==
    /\ SubmitInit
    /\ [][JobNext]_vars
    /\ WF_vars(Admit)
    /\ WF_vars(CreateJob)
    /\ WF_vars(QueueJob)
    /\ WF_vars(\E ok \in BOOLEAN : Dispatch(ok))
    /\ WF_vars(\E m \in WorkerMessages : WebhookJobStatus(m, WORKER_SECRET))

\* ------------------------------------------------------------------ C13
\* C13: a submission by a caller whose wallet held less than
\* MINIMUM_BALANCE_TO_START when the request arrived is rejected, and creates
\* no job row and dispatches nothing.
LowBalanceRejected ==
    (ledger.base < MinimumBalance /\ subpc # "none") =>
        (subpc = "rejected" /\ ~job.exists)

\* ------------------------------------------------------------------ C14
\* C14: a job that is PENDING does not stay PENDING forever.
PendingLeadsOn == (job.exists /\ job.status = PENDING) ~> (job.status # PENDING)

\* ------------------------------------------------------------------ C23
\* the sum of the amounts of the Transaction rows ts
RECURSIVE TransactionSum(_)
TransactionSum(ts) ==
    IF ts = <<>> THEN 0 ELSE Head(ts).amount + TransactionSum(Tail(ts))

\* C23: in every state reached by API requests the wallet's balance is the
\* balance it was created with plus the sum of the amounts of its
\* Transactions.
BalanceIsTransactionSum ==
    wallet.exists => wallet.balance = ledger.base + TransactionSum(txns)

\* ========================================================= worker actions
\* execute_gpu_job with Docker available, one action per call it makes.
\* Its calls to the backend are handled there without another request in
\* between; a call that fails in communication is swallowed by the helper.

\* BillingService.check_and_bill, run without interleaving on wallet w, job j
CheckAndBill(w, j, minutes) ==
    IF ~j.exists \/ ~w.exists
    THEN [wallet |-> w, job |-> j, txns |-> <<>>, result |-> NotFoundResult]
    ELSE IF InsufficientCredits(w, CostMicro)
    THEN [wallet |-> w, job |-> j, txns |-> <<>>, result |-> RefusedResult(w)]
    ELSE [wallet |-> DebitedRow(w, w, CostMicro),
          job |-> BilledJob(j, j, minutes),
          txns |-> <<DebitTransaction(w, CostMicro)>>,
          result |-> BilledResult(DebitedRow(w, w, CostMicro))]

\* _update_job_status(job_id, status, ...): the POST reaches
\* JobService.update_status (ok) or fails and the error is logged
Report(m, ok) ==
    /\ statusLog' = Append(statusLog, [msg |-> m, delivered |-> ok])
    /\ IF ok
       THEN /\ job' = UpdateStatus(job, m, now)
            /\ lastMsg' = {m}
            /\ delivered' = delivered + 1
       ELSE UNCHANGED <<job, lastMsg, delivered>>

StoppedAgain(c, code) == [c EXCEPT !.running = FALSE, !.exit_code = {code}]

\* DockerManager.stop_container: SIGTERM, then SIGKILL; a container that has
\* exited stays as it is
Stopped(c, code) ==
    IF c.running THEN [c EXCEPT !.running = FALSE, !.exit_code = {code}] ELSE c

\* the task is taken from the queue: container_id = None; start_time = utcnow()
WorkerPickup ==
    /\ wpc = "queued"
    /\ wpc' = "preparing"
    /\ start_time' = now
    /\ UNCHANGED <<now, ledgerVars, storeVars, cancelled, cancelResponse, lastPost, container,
                   last_billing_check, timeout_seconds, runtime_minutes, hbLog,
                   statusLog, stopCalls, cleanupCalls, savedLogs>>

\* PHASE 1: _update_job_status(job_id, "preparing")
ReportPreparing(ok) ==
    /\ wpc = "preparing"
    /\ Report(MsgPreparing, ok)
    /\ wpc' = "launch"
    /\ UNCHANGED <<now, ledgerVars, subpc, cancelled, cancelResponse, lastPost, container, start_time,
                   last_billing_check, timeout_seconds, runtime_minutes, hbLog,
                   stopCalls, cleanupCalls, savedLogs>>

\* PHASE 2: container_id = self.docker_manager.run_job(config, script_name),
\* which returns the id of a started container (ok) or raises
Launch(ok) ==
    /\ wpc = "launch"
    /\ IF ok
       THEN /\ container' = [exists |-> TRUE, running |-> TRUE, exit_code |-> {},
                             oom_killed |-> FALSE]
            /\ wpc' = "report_running"
       ELSE /\ UNCHANGED container
            /\ wpc' = "except"
    /\ UNCHANGED <<now, ledgerVars, storeVars, cancelled, cancelResponse, lastPost, start_time,
                   last_billing_check, timeout_seconds, runtime_minutes, hbLog,
                   statusLog, stopCalls, cleanupCalls, savedLogs>>

\* _update_job_status(job_id, "running", container_id=container_id);
\* PHASE 3: deadline = start_time + timeout; last_billing_check = start_time
ReportRunning(ok) ==
    /\ wpc = "report_running"
    /\ Report(MsgRunning, ok)
    /\ last_billing_check' = start_time
    /\ wpc' = "poll"
    /\ UNCHANGED <<now, ledgerVars, subpc, cancelled, cancelResponse, lastPost, container, start_time,
                   timeout_seconds, runtime_minutes, hbLog, stopCalls,
                   cleanupCalls, savedLogs>>

DeadlineIgnored(t) == FALSE

\* if datetime.utcnow() > deadline, with deadline = start_time + timeout
DeadlinePassed(t) == t > start_time + timeout_seconds

BillingAlwaysDue(t) == TRUE

\* if datetime.utcnow() - last_billing_check >= billing_interval
BillingDue(t) == t - last_billing_check >= BillingInterval

\* one pass over the head of the monitoring loop: container status, timeout
\* check, and whether a billing heartbeat is due
Poll ==
    /\ wpc = "poll"
    /\ IF ~container.running
       THEN /\ wpc' = "finalize"
            /\ UNCHANGED <<last_billing_check, runtime_minutes>>
       ELSE IF DeadlinePassed(now)
       THEN /\ wpc' = "timeout_stop"
            /\ UNCHANGED <<last_billing_check, runtime_minutes>>
       ELSE IF BillingDue(now)
       THEN /\ wpc' = "heartbeat"
            /\ last_billing_check' = now
            /\ runtime_minutes' = (now - start_time) \div SecondsPerMinute
       ELSE /\ wpc' = "sleep"
            /\ UNCHANGED <<last_billing_check, runtime_minutes>>
    /\ UNCHANGED <<now, ledgerVars, storeVars, cancelled, cancelResponse, lastPost, container, start_time,
                   timeout_seconds, hbLog, statusLog, stopCalls, cleanupCalls, savedLogs>>

\* timeout: self.docker_manager.stop_container(container_id)
TimeoutStop(code) ==
    /\ wpc = "timeout_stop"
    /\ container' = Stopped(container, code)
    /\ stopCalls' = stopCalls + 1
    /\ wpc' = "timeout_report"
    /\ UNCHANGED <<now, ledgerVars, storeVars, cancelled, cancelResponse, lastPost, start_time,
                   last_billing_check, timeout_seconds, runtime_minutes, hbLog,
                   statusLog, cleanupCalls, savedLogs>>

\* timeout: _update_job_status(job_id, "failed", error="Timeout exceeded"); break
TimeoutReport(ok) ==
    /\ wpc = "timeout_report"
    /\ Report(MsgTimeout, ok)
    /\ wpc' = "finalize"
    /\ UNCHANGED <<now, ledgerVars, subpc, cancelled, cancelResponse, lastPost, container, start_time,
                   last_billing_check, timeout_seconds, runtime_minutes, hbLog,
                   stopCalls, cleanupCalls, savedLogs>>

\* what can come of the POST of _billing_heartbeat: the backend's answer; no
\* connection; the backend bills and the answer is lost; an HTTP error whose
\* body is a JSON object, such as the 401 of verify_worker or a 422
HeartbeatOutcomes == {"answered", "unreachable", "answer_lost", "error_json"}

\* _billing_heartbeat: data.get("should_continue", False) of the JSON body;
\* except Exception: return True
ShouldContinue(outcome, result) ==
    CASE outcome = "answered" -> result.should_continue
      [] outcome = "error_json" -> FALSE
      [] OTHER -> TRUE

\* should_continue = _billing_heartbeat(job_id, runtime_minutes)
Heartbeat(outcome, latency) ==
    /\ wpc = "heartbeat"
    /\ LET billed == CheckAndBill(wallet, job, runtime_minutes)
           reached == outcome \in {"answered", "answer_lost"}
           should == ShouldContinue(outcome, billed.result)
       IN  /\ IF reached
              THEN /\ wallet' = billed.wallet
                   /\ job' = billed.job
                   /\ txns' = txns \o billed.txns
                   /\ ledger' = IF billed.txns # <<>> THEN Succeeded(billed.txns[1])
                                ELSE ledger
                   /\ lastMsg' = IF billed.txns # <<>> THEN {} ELSE lastMsg
              ELSE UNCHANGED <<wallet, job, txns, ledger, lastMsg>>
           /\ hbLog' = Append(hbLog,
                  [minutes |-> runtime_minutes, outcome |-> outcome,
                   should_continue |-> should,
                   debited |-> reached /\ billed.txns # <<>>])
           /\ wpc' = IF should THEN "sleep" ELSE "kill_stop"
    /\ now' = now + latency
    /\ UNCHANGED <<req, lockHolder, started, subpc, delivered, cancelled,
                   cancelResponse, lastPost, container, start_time, last_billing_check,
                   timeout_seconds, runtime_minutes, statusLog, stopCalls,
                   cleanupCalls, savedLogs>>

\* kill switch: self.docker_manager.stop_container(container_id)
KillStop(code) ==
    /\ wpc = "kill_stop"
    /\ container' = Stopped(container, code)
    /\ stopCalls' = stopCalls + 1
    /\ wpc' = "kill_report"
    /\ UNCHANGED <<now, ledgerVars, storeVars, cancelled, cancelResponse, lastPost, start_time,
                   last_billing_check, timeout_seconds, runtime_minutes, hbLog,
                   statusLog, cleanupCalls, savedLogs>>

\* kill switch: _update_job_status(job_id, "killed_no_credits"); return
KillReport(ok) ==
    /\ wpc = "kill_report"
    /\ Report(MsgKilled, ok)
    /\ wpc' = "cleanup"
    /\ UNCHANGED <<now, ledgerVars, subpc, cancelled, cancelResponse, lastPost, container, start_time,
                   last_billing_check, timeout_seconds, runtime_minutes, hbLog,
                   stopCalls, cleanupCalls, savedLogs>>

\* time.sleep(5)
Sleep ==
    /\ wpc = "sleep"
    /\ now' = now + SleepSeconds
    /\ wpc' = "poll"
    /\ UNCHANGED <<ledgerVars, storeVars, cancelled, cancelResponse, lastPost, runVars>>

\* the Docker API raises in get_container_status (monitoring loop or
\* finalization) or in get_logs: control passes to the except clause
DockerError ==
    /\ wpc \in {"poll", "finalize"}
    /\ wpc' = "except"
    /\ UNCHANGED <<now, ledgerVars, storeVars, cancelled, cancelResponse, lastPost,
                   runVars>>

\* PHASE 4: the status update chosen from the container's final state
FinalMessage(c, runtime) ==
    IF c.oom_killed THEN MsgOom
    ELSE IF c.exit_code = {0} THEN MsgCompleted(runtime)
    ELSE MsgExit(Val(c.exit_code), runtime)

\* PHASE 4: final status; logs = get_logs(container_id); _save_logs(job_id,
\* logs); the last _update_job_status; return
Finalize(ok) ==
    /\ wpc = "finalize"
    /\ savedLogs' = TRUE
    /\ Report(FinalMessage(container, now - start_time), ok)
    /\ wpc' = "cleanup"
    /\ UNCHANGED <<now, ledgerVars, subpc, cancelled, cancelResponse, lastPost, container, start_time,
                   last_billing_check, timeout_seconds, runtime_minutes, hbLog,
                   stopCalls, cleanupCalls>>

\* except Exception: _update_job_status(job_id, "failed", error=str(e)); raise
ExceptReport(ok) ==
    /\ wpc = "except"
    /\ Report(MsgException, ok)
    /\ wpc' = "cleanup"
    /\ UNCHANGED <<now, ledgerVars, subpc, cancelled, cancelResponse, lastPost, container, start_time,
                   last_billing_check, timeout_seconds, runtime_minutes, hbLog,
                   stopCalls, cleanupCalls, savedLogs>>

CleanupSkipped ==
    /\ wpc = "cleanup"
    /\ wpc' = "done"
    /\ UNCHANGED <<now, ledgerVars, storeVars, cancelled, cancelResponse, lastPost, runVars>>

\* finally: if container_id: self.docker_manager.cleanup_container(container_id)
Cleanup ==
    /\ wpc = "cleanup"
    /\ IF container.exists
       THEN /\ container' = NoContainer
            /\ cleanupCalls' = cleanupCalls + 1
       ELSE UNCHANGED <<container, cleanupCalls>>
    /\ wpc' = "done"
    /\ UNCHANGED <<savedLogs, now, ledgerVars, storeVars, cancelled, cancelResponse, lastPost, start_time,
                   last_billing_check, timeout_seconds, runtime_minutes, hbLog,
                   statusLog, stopCalls>>

\* the user's script ends by itself, or the kernel kills it for memory
ContainerExit(code, oom) ==
    /\ container.running
    /\ container' = [container EXCEPT !.running = FALSE, !.exit_code = {code},
                                      !.oom_killed = oom]
    /\ UNCHANGED <<now, ledgerVars, storeVars, cancelled, cancelResponse, lastPost, wpc, start_time,
                   last_billing_check, timeout_seconds, runtime_minutes, hbLog,
                   statusLog, stopCalls, cleanupCalls, savedLogs>>

\* the owner asks, once in the run, for the job to be cancelled
UserCancel == cancelResponse = "none" /\ CancelJob(TRUE)

\* a job that was submitted and queued at time 0, its task in the queue; the
\* owner's wallet holds 0.00 .. MaxCents / 100
Init ==
    /\ now = 0
    /\ \E b \in 0..MaxCents :
          /\ wallet = NewWallet(b)
          /\ ledger = InitLedgerHistory(b)
    /\ txns = <<>>
    /\ job = UpdateStatus(NewJob, StatusUpdate(PENDING, "", "", {}), 0)
    /\ req = [s \in Slots |-> IdleRequest]
    /\ lockHolder = NoSlot
    /\ started = 0
    /\ subpc = "sent"
    /\ lastMsg = {}
    /\ delivered = 0
    /\ wpc = "queued"
    /\ container = NoContainer
    /\ start_time = 0
    /\ last_billing_check = 0
    /\ timeout_seconds \in {ShortTimeout, LongTimeout}
    /\ runtime_minutes = 0
    /\ hbLog = <<>>
    /\ statusLog = <<>>
    /\ stopCalls = 0
    /\ cleanupCalls = 0
    /\ savedLogs = FALSE
    /\ cancelled = FALSE
    /\ cancelResponse = "none"
    /\ lastPost = NoPost

Next ==
    \/ WorkerPickup
    \/ \E ok \in BOOLEAN : ReportPreparing(ok)
    \/ \E ok \in BOOLEAN : Launch(ok)
    \/ \E ok \in BOOLEAN : ReportRunning(ok)
    \/ Poll
    \/ \E code \in {0, 137} : TimeoutStop(code)
    \/ \E ok \in BOOLEAN : TimeoutReport(ok)
    \/ \E outcome \in HeartbeatOutcomes,
          latency \in {0, MaxLatency} : Heartbeat(outcome, latency)
    \/ \E code \in {0, 137} : KillStop(code)
    \/ \E ok \in BOOLEAN : KillReport(ok)
    \/ Sleep
    \/ \E ok \in BOOLEAN : Finalize(ok)
    \/ DockerError
    \/ \E ok \in BOOLEAN : ExceptReport(ok)
    \/ Cleanup
    \/ ContainerExit(0, FALSE)
    \/ ContainerExit(1, FALSE)
    \/ ContainerExit(137, TRUE)
    \/ UserCancel

Spec == Init /\ [][Next]_vars

\* ======================================================== simulation
\* execute_gpu_job when self.docker_manager raises: use_simulation = True
SimPreambleSeconds == 5     \* _run_simulation_loop: time.sleep(2), (1), (2)
SimSteps == 50              \* total_epochs * steps_per_epoch
SimUploadSeconds == 2       \* _run_simulation_loop: the last time.sleep(2)

MsgSimRunning == StatusUpdate(RUNNING, "sim", "", {})

\* _update_job_status(job_id, "running", container_id=sim_container_id)
SimReportRunning(ok) ==
    /\ wpc = "launch"
    /\ Report(MsgSimRunning, ok)
    /\ wpc' = "sim_pull"
    /\ UNCHANGED <<now, ledgerVars, subpc, cancelled, cancelResponse, lastPost,
                   container, start_time, last_billing_check, timeout_seconds,
                   runtime_minutes, hbLog, stopCalls, cleanupCalls, savedLogs>>

\* _run_simulation_loop: start_time = utcnow(); the log lines and sleeps
\* before the first epoch
SimPreamble ==
    /\ wpc = "sim_pull"
    /\ now' = now + SimPreambleSeconds
    /\ wpc' = "sim_loop"
    /\ UNCHANGED <<ledgerVars, storeVars, cancelled, cancelResponse, lastPost, runVars>>

\* steps of 1.5 s finished when (utcnow() - start_time).seconds is elapsed
SimStepsDone(elapsed) == (2 * (elapsed - SimPreambleSeconds) + 2) \div 3

\* (utcnow() - start_time).seconds after k steps of 1.5 s
SimElapsed(k) == SimPreambleSeconds + ((3 * k) \div 2)

\* one step of the training loop: the timeout check, then time.sleep(1.5);
\* after the last step the closing log lines and time.sleep(2)
SimStep ==
    /\ wpc = "sim_loop"
    /\ LET k == SimStepsDone(now - start_time)
       IN  IF k = SimSteps
           THEN /\ now' = now + SimUploadSeconds
                /\ wpc' = "sim_report"
           ELSE IF now - start_time > timeout_seconds
           THEN /\ wpc' = "sim_report"
                /\ UNCHANGED now
           ELSE /\ now' = start_time + SimElapsed(k + 1)
                /\ UNCHANGED wpc
    /\ UNCHANGED <<ledgerVars, storeVars, cancelled, cancelResponse, lastPost, runVars>>

\* _update_job_status(job_id, "completed", runtime_seconds=...); return;
\* finally: container_id is None, nothing to clean up
SimReportCompleted(ok) ==
    /\ wpc = "sim_report"
    /\ Report(MsgCompleted(now - start_time), ok)
    /\ wpc' = "done"
    /\ UNCHANGED <<now, ledgerVars, subpc, cancelled, cancelResponse, lastPost,
                   container, start_time, last_billing_check, timeout_seconds,
                   runtime_minutes, hbLog, stopCalls, cleanupCalls, savedLogs>>

SimNext ==
    \/ WorkerPickup
    \/ \E ok \in BOOLEAN : ReportPreparing(ok)
    \/ \E ok \in BOOLEAN : SimReportRunning(ok)
    \/ SimPreamble
    \/ SimStep
    \/ \E ok \in BOOLEAN : SimReportCompleted(ok)
    \/ UserCancel

SimSpec == Init /\ [][SimNext]_vars

\* ------------------------------------------------------------------ C29
\* C29: while the job runs, in the container backend and in the simulation
\* alike, the worker attempts a billing heartbeat every 60 seconds: once the
\* run has lasted 60 seconds and one more sleep, a heartbeat has been made.
HeartbeatEveryMinute ==
    (wpc \in {"poll", "sleep", "sim_loop"}
        /\ now - start_time >= BillingInterval + SimPreambleSeconds + SleepSeconds)
        => hbLog # <<>>

\* ========================================================= redelivery
\* the job after an execution that ended with exit code 0 at time 0
FinishedJob ==
    UpdateStatus(
        UpdateStatus(
            UpdateStatus(UpdateStatus(NewJob, StatusUpdate(PENDING, "", "", {}), 0),
                         MsgPreparing, 0),
            MsgRunning, 0),
        MsgCompleted(0), 0)

\* task_acks_late / task_reject_on_worker_lost: the broker delivers the work
\* item of a finished job once more (the acknowledgement did not arrive)
DuplicateInit ==
    /\ now = 0
    /\ \E b \in 0..MaxCents :
          /\ wallet = NewWallet(b)
          /\ ledger = InitLedgerHistory(b)
    /\ txns = <<>>
    /\ job = FinishedJob
    /\ req = [s \in Slots |-> IdleRequest]
    /\ lockHolder = NoSlot
    /\ started = 0
    /\ subpc = "sent"
    /\ lastMsg = {}
    /\ delivered = 0
    /\ wpc = "queued"
    /\ container = NoContainer
    /\ start_time = 0
    /\ last_billing_check = 0
    /\ timeout_seconds = ShortTimeout
    /\ runtime_minutes = 0
    /\ hbLog = <<>>
    /\ statusLog = <<>>
    /\ stopCalls = 0
    /\ cleanupCalls = 0
    /\ savedLogs = FALSE
    /\ cancelled = FALSE
    /\ cancelResponse = "none"
    /\ lastPost = NoPost

DuplicateSpec == DuplicateInit /\ [][Next]_vars

\* ------------------------------------------------------------------ C21
\* C21: the handler of a work item delivered again for a job that is no
\* longer PENDING launches no container, sends no status update and leaves
\* the job's status and timestamps as they were.
DuplicateDeliveryIgnored ==
    /\ statusLog = <<>>
    /\ ~container.exists
    /\ job.status = FinishedJob.status
    /\ job.started_at = FinishedJob.started_at
    /\ job.completed_at = FinishedJob.completed_at

\* ================================================== claims on a monitored run
AllAnswered == \A i \in DOMAIN hbLog : hbLog[i].outcome = "answered"

\* nothing but the job's debits has written the wallet
OnlyDebited == wallet.balance = ledger.base + ledger.sum

KillReported ==
    \E i \in DOMAIN statusLog :
        statusLog[i].msg = MsgKilled /\ statusLog[i].delivered

\* the number of the heartbeat that exhausts a wallet which covers n charges
ExhaustingHeartbeat(n) == IF n = 0 THEN 1 ELSE n

\* ------------------------------------------------------------------- C4
\* C4 (amended): with a wallet that covers exactly N charges, written by
\* nothing but the job's debits, and every heartbeat answered, heartbeat k
\* answers should_continue = true exactly when k < N and debits exactly when k <= N; the heartbeat that brings the balance
\* to zero (heartbeat N, or the refused first heartbeat when N = 0) is the
\* last one: the worker stops the container once and reports
\* killed_no_credits, the job is KILLED_NO_CREDITS once that report is
\* delivered, and the runtime_seconds written by heartbeat N is 60 times its
\* runtime_minutes, which is at least N.
KillOnExhaustingHeartbeat ==
    (AllAnswered /\ OnlyDebited) =>
        /\ \A k \in DOMAIN hbLog :
              /\ hbLog[k].should_continue <=> k < ledger.base
              /\ hbLog[k].debited <=> k <= ledger.base
              /\ k <= ExhaustingHeartbeat(ledger.base)
              /\ hbLog[k].minutes >= k
        /\ wpc \in {"kill_stop", "kill_report"} =>
              /\ Len(hbLog) = ExhaustingHeartbeat(ledger.base)
              /\ ledger.base > 0 =>
                    job.runtime_seconds
                        = SecondsPerMinute * hbLog[Len(hbLog)].minutes
        /\ wpc = "kill_report" => (~container.running /\ stopCalls = 1)
        /\ KillReported =>
              /\ Len(hbLog) = ExhaustingHeartbeat(ledger.base)
              /\ job.status = KILLED_NO_CREDITS
              /\ stopCalls = 1

\* a wallet covering two charges was exhausted by the second heartbeat and
\* the job was killed on it
KilledOnSecondHeartbeat ==
    /\ wpc = "done" /\ ledger.base = 2 /\ AllAnswered /\ Len(hbLog) = 2
    /\ hbLog[1].should_continue /\ ~hbLog[2].should_continue
    /\ wallet.balance = 0 /\ Len(txns) = 2
    /\ KillReported /\ job.status = KILLED_NO_CREDITS
    /\ job.runtime_seconds = 2 * SecondsPerMinute

\* C4 as stated: with every heartbeat answered, heartbeats 1..N all answer
\* should_continue = true and the job is killed on heartbeat N+1
KilledAfterLastPaidHeartbeat ==
    (AllAnswered /\ OnlyDebited) =>
        /\ \A k \in DOMAIN hbLog :
              k <= ledger.base => hbLog[k].should_continue
        /\ KillReported => Len(hbLog) = ledger.base + 1

\* ------------------------------------------------------------------- C6
\* C6: a heartbeat debits the wallet and writes a Transaction only while the
\* job is billable (PREPARING or RUNNING).
HeartbeatDebitsOnlyBillable ==
    [][(wpc = "heartbeat" /\ (txns' # txns \/ wallet' # wallet))
          => IsBillable(job)]_vars

\* ------------------------------------------------------------------- C8
\* C8: a poll of the monitor loop that finds the container running after the
\* user's cancel was accepted goes on to stop the container.
CancelStopsContainer ==
    [][(cancelled /\ container.running /\ wpc = "poll" /\ wpc' # "poll")
          => wpc' \in {"kill_stop", "timeout_stop"}]_vars

\* ------------------------------------------------------------------ C12
\* C12: the job becomes KILLED_NO_CREDITS only from PREPARING or RUNNING, and
\* only by the report that follows a heartbeat answered should_continue =
\* false.
KilledOnlyFromBillable ==
    [][(job'.status = KILLED_NO_CREDITS /\ job.status # KILLED_NO_CREDITS) =>
          /\ job.status \in {PREPARING, RUNNING}
          /\ wpc = "kill_report"
          /\ ~hbLog[Len(hbLog)].should_continue]_vars

\* ------------------------------------------------------------------ C15
\* C15: a heartbeat that was not answered with a heartbeat answer (no
\* connection, a lost answer, an error response) counts as continue for the
\* worker.
FailedHeartbeatContinues ==
    \A i \in DOMAIN hbLog :
        hbLog[i].outcome # "answered" => hbLog[i].should_continue

\* ------------------------------------------------------------------ C16
\* C16: after a heartbeat that was answered and debited, the job has been
\* debited one per-minute charge for each whole minute the worker reported
\* with it, also when earlier heartbeats did not reach the backend.
DeferredBillingCaughtUp ==
    (/\ hbLog # <<>>
     /\ hbLog[Len(hbLog)].outcome = "answered"
     /\ hbLog[Len(hbLog)].debited)
        => Len(txns) = hbLog[Len(hbLog)].minutes

\* ------------------------------------------------------------------ C17
\* C17: a poll that reads the container's status (the Docker API does not
\* raise) and finds it running after the deadline goes to
\* the timeout stop without a heartbeat, whatever the heartbeats answered
\* before; that stop leaves the container stopped; a heartbeat is only sent
\* before the deadline, so a run that is continued is never more than one
\* heartbeat call past it; and a run stopped by the kill switch is not
\* stopped by the timeout as well.
DeadlineStopsContainer ==
    /\ [][/\ (wpc = "poll" /\ wpc' \notin {"poll", "except"} /\ container.running
                 /\ now > start_time + timeout_seconds)
              => (wpc' = "timeout_stop" /\ hbLog' = hbLog)
          /\ (wpc = "timeout_stop" /\ wpc' # "timeout_stop")
              => (~container'.running /\ stopCalls' = stopCalls + 1)
          /\ wpc' = "heartbeat" => now <= start_time + timeout_seconds]_vars
    /\ []((container.running /\ wpc = "sleep")
              => now <= start_time + timeout_seconds + MaxLatency)
    /\ [](stopCalls <= 1)

\* the deadline stopped a container after a heartbeat had said continue
StoppedByDeadline ==
    /\ wpc = "timeout_report" /\ stopCalls = 1 /\ ~container.running
    /\ now > start_time + timeout_seconds
    /\ hbLog # <<>> /\ hbLog[Len(hbLog)].should_continue

\* ------------------------------------------------------------------ C18
Sent(m) == \E i \in DOMAIN statusLog : statusLog[i].msg = m

AllDelivered == \A i \in DOMAIN statusLog : statusLog[i].delivered

\* C18: when the worker has made its last report, every report was delivered
\* and the user did not cancel, the job's status and error_message name what
\* ended the run: exception, kill switch, timeout, out of memory, exit code 0
\* or another exit code.
FinalStatusNamesCause ==
    (wpc = "cleanup" /\ AllDelivered /\ cancelResponse = "none") =>
        IF Sent(MsgException)
        THEN job.status = FAILED /\ job.error_message = MsgException.error_message
        ELSE IF Sent(MsgKilled)
        THEN job.status = KILLED_NO_CREDITS
        ELSE IF Sent(MsgTimeout)
        THEN job.status = FAILED /\ job.error_message = MsgTimeout.error_message
        ELSE IF container.oom_killed
        THEN job.status = FAILED /\ job.error_message = MsgOom.error_message
        ELSE IF container.exit_code = {0}
        THEN job.status = COMPLETED
        ELSE /\ job.status = FAILED
             /\ job.error_message = MsgExit(Val(container.exit_code), 0).error_message

\* ------------------------------------------------------------------ C19
\* C19: after a heartbeat that told the worker to stop, the worker calls
\* stop once, then reports killed_no_credits, then calls cleanup once; when
\* it is done the job is KILLED_NO_CREDITS with completed_at set and the
\* container is gone.
KillSwitchSequence ==
    (hbLog # <<>> /\ ~hbLog[Len(hbLog)].should_continue) =>
        /\ wpc = "kill_stop" => (stopCalls = 0 /\ ~Sent(MsgKilled) /\ cleanupCalls = 0)
        /\ wpc = "kill_report" => (stopCalls = 1 /\ ~Sent(MsgKilled) /\ cleanupCalls = 0)
        /\ wpc = "cleanup" => (stopCalls = 1 /\ Sent(MsgKilled) /\ cleanupCalls = 0)
        /\ wpc = "done" =>
              /\ stopCalls = 1 /\ Sent(MsgKilled) /\ cleanupCalls = 1
              /\ ~container.exists
              /\ job.status = KILLED_NO_CREDITS /\ job.completed_at # {}

\* ------------------------------------------------------------------ C20
\* C20: cleanup_container is called once for a container that was launched,
\* when the task ends and not before, however the run ended, and never for a
\* task that launched none; afterwards the container is gone.
CleanupExactlyOnce ==
    /\ wpc # "done" => cleanupCalls = 0
    /\ wpc = "done" =>
          /\ cleanupCalls = (IF Sent(MsgRunning) THEN 1 ELSE 0)
          /\ ~container.exists

\* a task ended by an exception raised after the launch has cleaned up
CleanedUpAfterException ==
    /\ wpc = "done" /\ Sent(MsgRunning) /\ Sent(MsgException)
    /\ cleanupCalls = 1 /\ ~container.exists

\* ------------------------------------------------------------------ C28
\* C28: a final status update that fails is retried or surfaced, never
\* dropped, so an execution that has ended leaves the job in a terminal
\* status.
EndedExecutionIsTerminal == wpc = "done" => IsTerminal(job)

\* ------------------------------------------------------------------ C30
\* @celery_app.task(max_retries=3, default_retry_delay=30)
max_retries == 3

\* executions of the task so far: the except clause re-raises and nothing
\* calls self.retry, so the task never returns to the queue
Executions == IF wpc = "queued" THEN 0 ELSE 1

\* C30: after an error of the controller or of the container runtime the
\* job is executed again, up to max_retries times, and it is reported
\* FAILED for that error only when the retries are used up.
FailedOnlyAfterRetries ==
    Sent(MsgException) => Executions > max_retries

\* ------------------------------------------------------------------ C31
\* C31: once the final status update for a container that has exited is
\* delivered, the job's exit_code is the container's exit code (0 after a
\* successful run).
ExitCodeStored ==
    (wpc = "cleanup" /\ container.exists /\ container.exit_code # {}
        /\ statusLog # <<>> /\ statusLog[Len(statusLog)].delivered
        /\ statusLog[Len(statusLog)].msg = FinalMessage(container, job.runtime_seconds)
        /\ ~container.oom_killed)
        => job.exit_code = container.exit_code

\* ------------------------------------------------------------------ C33
\* C33: when a launched container has come to its end (exit, OOM, timeout or
\* kill switch) and the worker removes it, the container's logs have been
\* saved to the job's log file.
LogsSavedBeforeCleanup ==
    (wpc = "cleanup" /\ container.exists /\ ~Sent(MsgException)) => savedLogs

\* ------------------------------------------------------------------ C36
\* the terminal status updates the execution has sent so far
TerminalUpdatesSent ==
    Cardinality({i \in DOMAIN statusLog :
                    statusLog[i].msg.status \in {COMPLETED, FAILED, KILLED_NO_CREDITS}})

\* C36: an execution of execute_gpu_job sends at most one terminal status
\* update (completed, failed or killed_no_credits), whatever path it takes.
AtMostOneTerminalUpdate == TerminalUpdatesSent <= 1

\* ========================================================== ledger specs
\* a job that is running (created, queued, picked up and reported running)
RunningJob ==
    [NewJob EXCEPT !.status = RUNNING, !.queued_at = {0}, !.started_at = {0},
                   !.container_id = "c1"]

LedgerNext ==
    \E s \in Slots :
        \/ \E minutes \in {1, 2} : StartHeartbeat(s, minutes, WORKER_SECRET)
        \/ HbLoadJob(s)
        \/ HbGetWallet(s)
        \/ DebitLock(s)
        \/ DebitCommit(s)
        \/ HbReloadJob(s)
        \/ HbWriteJob(s)
        \/ HbRefresh(s)
        \/ \E cents \in {500} : StartTopUp(s, Micro(cents))
        \/ TuGetWallet(s)
        \/ CreditLock(s)
        \/ CreditCommit(s)
        \/ Respond(s)

LedgerInitWith(w, j) ==
    /\ now = 0
    /\ wallet = w
    /\ txns = <<>>
    /\ job = j
    /\ req = [s \in Slots |-> IdleRequest]
    /\ lockHolder = NoSlot
    /\ started = 0
    /\ ledger = InitLedgerHistory(w.balance)
    /\ subpc = "sent"
    /\ lastMsg = {}
    /\ delivered = 0
    /\ WorkerIdle

\* Concurrent top-ups and heartbeats on a wallet holding 10.00
LedgerInit == LedgerInitWith(NewWallet(1000), RunningJob)

LedgerSpec == LedgerInit /\ [][LedgerNext]_vars

\* Heartbeats near exhaustion: a wallet holding 0.00 .. 0.02 or no wallet,
\* a running job or no job
BillingInit ==
    \E w \in {NoWalletRow} \cup {NewWallet(b) : b \in 0..2},
       j \in {NoJobRow, RunningJob} :
        LedgerInitWith(w, j)

BillingSpec == BillingInit /\ [][LedgerNext]_vars

Quiescent == \A s \in Slots : req[s].pc \in {"idle", "done"}

\* ------------------------------------------------------------------- C1
\* C1: when no ledger call is in progress, the balance is the initial balance
\* plus the signed amounts (as recorded, in cents) of the calls that
\* succeeded, and there is one Transaction row per succeeded call.
LedgerAtomicity ==
    Quiescent =>
        /\ wallet.balance = ledger.base + ledger.sum
        /\ Len(txns) = ledger.count

\* ------------------------------------------------------------------- C2
\* C2: a debit never leaves available_balance below zero, and a debit whose
\* amount exceeds the wallet's available_balance is refused and changes
\* neither the wallet nor the transactions.
DebitDecides(s) == req[s].pc = "debit_lock" /\ req'[s].pc # "debit_lock"

DebitNeverOverdraws ==
    [][\A s \in Slots :
          /\ (req[s].pc = "debit_commit" /\ req'[s].pc # "debit_commit")
                => AvailableBalance(wallet') >= 0
          /\ (DebitDecides(s) /\ Micro(AvailableBalance(wallet)) < req[s].amount)
                => (req'[s].pc = "done" /\ wallet' = wallet /\ txns' = txns)]_vars

\* ------------------------------------------------------------------- C5
\* C5: check_and_bill answers should_continue = true exactly when it made the
\* debit and available_balance is above zero afterwards; after a debit it
\* answers with the balance it then reads; a refused debit answers false with
\* the balance unchanged and writes neither wallet, Transaction nor job.
HbReturns(s) == req[s].kind = "hb" /\ req[s].pc # "done" /\ req'[s].pc = "done"

CheckAndBillResult ==
    [][\A s \in Slots : HbReturns(s) =>
          /\ req'[s].result.should_continue
                <=> (req[s].debited /\ AvailableBalance(wallet) > 0)
          /\ req[s].debited => req'[s].result.balance = wallet.balance
          /\ req[s].pc = "debit_lock" =>
                /\ ~req[s].debited
                /\ req'[s].result.balance = req[s].w.balance
                /\ wallet' = wallet /\ txns' = txns /\ job' = job]_vars

\* a heartbeat paid for its minute and still answered stop
PaidAndStopped ==
    \E s \in Slots :
        /\ req[s].kind = "hb" /\ req[s].pc = "done"
        /\ req[s].debited /\ ~req[s].result.should_continue

\* ------------------------------------------------------------------- C7
\* C7: a heartbeat whose job or wallet is not found answers
\* should_continue = false, debits nothing and writes no Transaction.
UnresolvedMeansStop ==
    [][\A s \in Slots :
          (HbReturns(s) /\ req[s].pc \in {"hb_job", "hb_wallet"}) =>
              /\ ~req'[s].result.should_continue
              /\ ~req'[s].debited
              /\ wallet' = wallet /\ txns' = txns]_vars

\* a heartbeat found its job but no wallet, and has answered
WalletUnresolved ==
    \E s \in Slots :
        /\ req[s].kind = "hb" /\ req[s].pc = "done"
        /\ req[s].j.exists /\ ~req[s].w.exists /\ ~wallet.exists


\* ------------------------------------------------------------------ C24
\* C24: every succeeded credit or debit raises the wallet's version by
\* exactly 1, so after k succeeded mutations the version is the initial
\* version plus k, concurrent mutations included.
VersionCountsMutations == wallet.version = NewWallet(0).version + ledger.count

\* ------------------------------------------------------------------ C25
\* C25: a debit is made only for an amount that is positive and has at most
\* two fractional digits (a whole number of cents), whoever the caller is:
\* a heartbeat's debit for any other amount is refused.
DebitedAmountsValidated ==
    \A s \in Slots :
        req[s].debited => (req[s].amount > 0 /\ req[s].amount % MicroPerCent = 0)

\* ====================================================== wallet requests
\* create_wallet: Wallet(user_id=user_id), the column defaults of the model
CreateWallet == NewWallet(0)

\* GET /wallet/ : get_current_user, then billing.get_wallet(current_user.id),
\* create_wallet if there is none, and the wallet is returned
GetWallet(s) ==
    /\ req[s].kind = "idle"
    /\ started < MaxRequests
    /\ (wallet.exists /\ wallet.balance < GuestMinBalance) => lockHolder = NoSlot
    /\ started' = started + 1
    /\ LET guest == GuestWallet(wallet)
           found == IF guest.exists THEN guest ELSE CreateWallet
       IN  /\ wallet' = found
           /\ ledger' = IF wallet.exists THEN ledger
                        ELSE InitLedgerHistory(found.balance)
           /\ Set(s, [IdleRequest EXCEPT !.kind = "get", !.pc = "done", !.w = found])
    /\ UNCHANGED <<now, txns, lockHolder, storeVars, workerVars, cancelled,
                   cancelResponse, lastPost>>

\* the guest has no wallet yet, an empty one, or one holding 0.02
WalletInit ==
    \E w \in {NoWalletRow, NewWallet(0), NewWallet(MaxCents)} :
        LedgerInitWith(w, RunningJob)

WalletNext ==
    \/ LedgerNext
    \/ \E s \in Slots : GetWallet(s)

WalletSpec == WalletInit /\ [][WalletNext]_vars

\* ------------------------------------------------------------------ C26
\* C26: a request for the user's wallet creates it with balance 0 if the
\* user has none, and otherwise returns the existing wallet unchanged.
GetOrCreateWallet ==
    [][\A s \in Slots :
          (req[s].kind = "idle" /\ req'[s].kind = "get") =>
              /\ wallet' = IF wallet.exists THEN wallet ELSE NewWallet(0)
              /\ req'[s].w = wallet']_vars

\* ============================================================ metering
\* the worker's next one-minute heartbeat of a running job, delivered and
\* answered with no other request in progress: check_and_bill as one step
MinuteHeartbeat ==
    /\ runtime_minutes < MaxHeartbeats
    /\ runtime_minutes' = runtime_minutes + 1
    /\ LET billed == CheckAndBill(wallet, job, runtime_minutes + 1)
       IN  /\ wallet' = billed.wallet
           /\ job' = billed.job
           /\ txns' = txns \o billed.txns
           /\ ledger' = IF billed.txns = <<>> THEN ledger
                        ELSE Succeeded(billed.txns[1])
           /\ Set("r1", [IdleRequest EXCEPT !.kind = "hb", !.pc = "done",
                                           !.amount = CostMicro,
                                           !.minutes = runtime_minutes + 1,
                                           !.w = billed.wallet,
                                           !.debited = billed.txns # <<>>,
                                           !.result = billed.result])
    /\ UNCHANGED <<now, lockHolder, started, subpc, lastMsg, delivered, wpc, container, start_time,
                   last_billing_check, timeout_seconds, hbLog, statusLog,
                   stopCalls, cleanupCalls, savedLogs, cancelled, cancelResponse, lastPost>>

\* a running job whose owner's wallet holds 1.00 (or 0.50)
MeterInit ==
    \E cents \in {50, MeterBalance} : LedgerInitWith(NewWallet(cents), RunningJob)

MeterSpec == MeterInit /\ [][MinuteHeartbeat]_vars

\* ------------------------------------------------------------------ C27
\* C27: from a balance of 1.00 the first 120 one-minute heartbeats are all
\* charged, the balance is 0.00 for the first time after the 120th, and the
\* heartbeat after it answers should_continue = false.
HundredTwentyMinutesPaid ==
    (ledger.base = 100 /\ runtime_minutes >= 1) =>
        /\ runtime_minutes <= 120 =>
              (req["r1"].debited /\ Len(txns) = runtime_minutes)
        /\ runtime_minutes < 120 =>
              (wallet.balance > 0 /\ req["r1"].result.should_continue)
        /\ runtime_minutes = 120 => wallet.balance = 0
        /\ runtime_minutes > 120 => ~req["r1"].result.should_continue

\* ====================================================== forged posts
\* posts to both webhooks carrying the configured secret or another one,
\* for a running job whose owner holds 0.02
WebhookInit == LedgerInitWith(NewWallet(MaxCents), RunningJob)

WebhookNext ==
    \/ \E s \in Slots :
        \/ \E secret \in Secrets : StartHeartbeat(s, 1, secret)
        \/ HbLoadJob(s)
        \/ HbGetWallet(s)
        \/ DebitLock(s)
        \/ DebitCommit(s)
        \/ HbReloadJob(s)
        \/ HbWriteJob(s)
        \/ HbRefresh(s)
        \/ Respond(s)
    \/ \E m \in {MsgKilled, MsgCompleted(BillingInterval)}, secret \in Secrets :
          WebhookJobStatus(m, secret)

WebhookSpec == WebhookInit /\ [][WebhookNext]_vars

\* a webhook post arrives in this step
PostArrives == delivered' # delivered \/ started' # started

\* ------------------------------------------------------------------ C22
\* C22: a status-update or billing-heartbeat post whose worker secret is not
\* the configured one is refused before anything is applied: the step that
\* receives it changes no field of the job, debits nothing and writes no
\* Transaction, and the refused heartbeat request takes no further step than
\* its 401 answer.
WrongSecretRejected ==
    /\ [](\A s \in Slots :
            req[s].result = Unauthorized => (req[s].pc = "done" /\ ~req[s].debited))
    /\ [][(PostArrives /\ lastPost'.secret # WORKER_SECRET) =>
            /\ lastPost'.refused
            /\ job' = job
            /\ wallet' = wallet
            /\ txns' = txns
            /\ \A s \in Slots :
                  req'[s] # req[s] => req'[s].result = Unauthorized]_vars

\* both webhooks have refused a post while the job was running and the
\* wallet could pay: nothing was debited and the job is as it was
ForgedPostsRefused ==
    /\ lastPost.refused
    /\ delivered > 0
    /\ \E s \in Slots : req[s].result = Unauthorized
    /\ job = RunningJob
    /\ txns = <<>>
    /\ wallet = NewWallet(MaxCents)


\* ================================================== container runtime
\* a container the worker has launched, and a container id that Docker does
\* not know (any more)
RunningContainer ==
    [exists |-> TRUE, running |-> TRUE, exit_code |-> {}, oom_killed |-> FALSE]

\* DockerManager.stop_container(container_id): container.stop(timeout=10);
\* NotFound and every other exception are logged and False is returned
StopContainer(code) ==
    /\ stopCalls < MaxStops
    /\ stopCalls' = stopCalls + 1
    /\ container' = Stopped(container, code)
    /\ UNCHANGED <<now, ledgerVars, storeVars, cancelled, cancelResponse, lastPost,
                   wpc, start_time, last_billing_check, timeout_seconds,
                   runtime_minutes, hbLog, statusLog, cleanupCalls, savedLogs>>

StopInit ==
    /\ now = 0
    /\ wallet = NewWallet(0)
    /\ ledger = InitLedgerHistory(0)
    /\ txns = <<>>
    /\ job = RunningJob
    /\ req = [s \in Slots |-> IdleRequest]
    /\ lockHolder = NoSlot
    /\ started = 0
    /\ subpc = "sent"
    /\ lastMsg = {}
    /\ delivered = 0
    /\ wpc = "idle"
    /\ container \in {NoContainer, RunningContainer}
    /\ start_time = 0
    /\ last_billing_check = 0
    /\ timeout_seconds = 0
    /\ runtime_minutes = 0
    /\ hbLog = <<>>
    /\ statusLog = <<>>
    /\ stopCalls = 0
    /\ cleanupCalls = 0
    /\ savedLogs = FALSE
    /\ cancelled = FALSE
    /\ cancelResponse = "none"
    /\ lastPost = NoPost

StopNext ==
    \/ \E code \in {0, 137} : StopContainer(code)
    \/ ContainerExit(0, FALSE)
    \/ ContainerExit(1, FALSE)
    \/ ContainerExit(137, TRUE)
    \/ Tick

StopSpec == StopInit /\ [][StopNext]_vars

WorkerStart ==
    /\ wpc = "crashed"
    /\ wpc' = "started"
    /\ UNCHANGED <<now, ledgerVars, storeVars, cancelled, cancelResponse, lastPost, runVars>>

\* the first task after the start: container_id = None; start_time = utcnow();
\* self.docker_manager constructs DockerManager, whose
\* _cleanup_orphaned_containers removes the containers named job-* (removed)
\* or logs the exception of the Docker API and leaves them
FirstPickup(removed) ==
    /\ wpc = "started"
    /\ wpc' = "preparing"
    /\ start_time' = now
    /\ container' = IF removed THEN NoContainer ELSE container
    /\ UNCHANGED <<now, ledgerVars, storeVars, cancelled, cancelResponse, lastPost,
                   last_billing_check, timeout_seconds, runtime_minutes, hbLog,
                   statusLog, stopCalls, cleanupCalls, savedLogs>>

\* containers.run(name="job-<job_id>"): Docker refuses a name that is in use
LaunchAfterRestart(ok) == (container.exists => ~ok) /\ Launch(ok)

\* the worker crashed while the job's container job-<job_id> was running; the
\* container runs on or has exited since, and the task is delivered again
RestartInit ==
    /\ now = 0
    /\ \E b \in 0..MaxCents :
          /\ wallet = NewWallet(b)
          /\ ledger = InitLedgerHistory(b)
    /\ txns = <<>>
    /\ job = RunningJob
    /\ req = [s \in Slots |-> IdleRequest]
    /\ lockHolder = NoSlot
    /\ started = 0
    /\ subpc = "sent"
    /\ lastMsg = {}
    /\ delivered = 0
    /\ wpc = "crashed"
    /\ container \in {RunningContainer, Stopped(RunningContainer, 137)}
    /\ start_time = 0
    /\ last_billing_check = 0
    /\ timeout_seconds \in {ShortTimeout, LongTimeout}
    /\ runtime_minutes = 0
    /\ hbLog = <<>>
    /\ statusLog = <<>>
    /\ stopCalls = 0
    /\ cleanupCalls = 0
    /\ savedLogs = FALSE
    /\ cancelled = FALSE
    /\ cancelResponse = "none"
    /\ lastPost = NoPost

RestartNext ==
    \/ WorkerStart
    \/ \E removed \in BOOLEAN : FirstPickup(removed)
    \/ \E ok \in BOOLEAN : ReportPreparing(ok)
    \/ \E ok \in BOOLEAN : LaunchAfterRestart(ok)
    \/ ContainerExit(0, FALSE)
    \/ UserCancel
    \/ Tick

RestartSpec == RestartInit /\ [][RestartNext]_vars

\* ------------------------------------------------------------------ C34
\* C34: once the worker has started after a crash, the container that the
\* crashed run left behind is gone, and it is gone before a new job is
\* launched.
OrphanRemovedAtStart ==
    wpc \in {"started", "preparing", "launch"} => ~container.exists


\* ======================================================== cancel race
\* POST /jobs/{id}/cancel/ step by step. First get_current_user, then
\* cancel_job: job = self.get_job(job_id); not found, PermissionError and
\* ValueError are answered at once; otherwise update_status follows.
CancelRead(s, owner) ==
    /\ req[s].kind = "idle"
    /\ started < MaxRequests
    /\ lockHolder = NoSlot
    /\ started' = started + 1
    /\ wallet' = GuestWallet(wallet)
    /\ ledger' = IF wallet.exists THEN ledger ELSE InitLedgerHistory(GuestBalance)
    /\ IF job.exists /\ owner /\ CancelOutcome(job) = "cancelled"
       THEN /\ Set(s, [IdleRequest EXCEPT !.kind = "cancel", !.pc = "cancel_write",
                                          !.j = job])
            /\ UNCHANGED cancelResponse
       ELSE /\ Set(s, [IdleRequest EXCEPT !.kind = "cancel", !.pc = "done", !.j = job])
            /\ cancelResponse' = IF ~job.exists THEN "not_found"
                                 ELSE IF ~owner THEN "forbidden"
                                 ELSE "bad_request"
    /\ UNCHANGED <<now, txns, lockHolder, storeVars, workerVars, cancelled, lastPost>>

\* update_status(job_id, CANCELLED): get_job gives the session's job object;
\* job.status = CANCELLED; job.completed_at = now; commit writes the columns
\* that were assigned
CancelWrite(s) ==
    /\ req[s].kind = "cancel"
    /\ req[s].pc = "cancel_write"
    /\ job' = [job EXCEPT !.status = CANCELLED, !.completed_at = CompletedAt(req[s].j, now)]
    /\ lastMsg' = {}
    /\ cancelled' = TRUE
    /\ cancelResponse' = "ok"
    /\ Set(s, [req[s] EXCEPT !.pc = "done"])
    /\ UNCHANGED <<now, wallet, txns, lockHolder, started, ledger, subpc, delivered,
                   workerVars, lastPost>>

\* a running job, its owner's wallet holding 0.02
CancelRaceInit == LedgerInitWith(NewWallet(MaxCents), RunningJob)

CancelRaceNext ==
    \/ \E s \in Slots :
        \/ \E owner \in BOOLEAN : CancelRead(s, owner)
        \/ CancelWrite(s)
        \/ Respond(s)
    \/ \E m \in {MsgCompleted(BillingInterval), MsgKilled, MsgOom} :
          WebhookJobStatus(m, WORKER_SECRET)
    \/ Tick

CancelRaceSpec == CancelRaceInit /\ [][CancelRaceNext]_vars

\* ------------------------------------------------------------------ C35
\* C35: a cancel whose write comes after the worker's terminal status update
\* was committed is rejected, and the job keeps the status the worker set.
CancelNeverOverwritesTerminal ==
    [][\A s \in Slots :
          (req[s].pc = "cancel_write" /\ req'[s].pc = "done" /\ IsTerminal(job)) =>
              (job' = job /\ cancelResponse' = "bad_request")]_vars


\* ------------------------------------------------------------------ C37
\* the debit Transactions that reference the job
IsJobDebit(t) == t.type = "debit" /\ t.job_id = "job"

NoHeartbeatInProgress ==
    \A s \in Slots : req[s].kind = "hb" => req[s].pc = "done"

\* C37: whenever no heartbeat is in progress, the job's total_cost is the
\* sum of the absolute amounts of the debit Transactions that reference the
\* job, concurrent heartbeats included.
TotalCostIsDebitSum ==
    (job.exists /\ NoHeartbeatInProgress) =>
        job.total_cost = 0 - TransactionSum(SelectSeq(txns, IsJobDebit))


\* ------------------------------------------------------------------ C38
\* C38: the wallet's Transactions form a chain: each has balance_after =
\* balance_before + amount, each starts from the balance_after of the one
\* before it, and the wallet's balance is the balance_after of the last one,
\* for every interleaving of credits and debits.
TransactionChain ==
    /\ \A i \in DOMAIN txns :
          /\ txns[i].balance_after = txns[i].balance_before + txns[i].amount
          /\ i > 1 => txns[i].balance_before = txns[i - 1].balance_after
    /\ txns # <<>> => wallet.balance = txns[Len(txns)].balance_after


\* ------------------------------------------------------------------ C39
\* C39: in one execution the worker makes its first heartbeat no sooner than
\* 60 seconds after the task's start and at most one heartbeat for each 60
\* seconds elapsed, so the debits made for the execution never exceed
\* floor(elapsed / 60), and an execution over within 60 seconds is not
\* debited.
HeartbeatsPaced ==
    /\ Len(hbLog) <= (now - start_time) \div BillingInterval
    /\ Len(SelectSeq(txns, IsJobDebit)) <= Len(hbLog)
    /\ (wpc = "done" /\ now - start_time < BillingInterval) => txns = <<>>

\* two heartbeats, both debited, in an execution that has lasted two minutes
TwoMinutesTwoDebits ==
    /\ Len(hbLog) = 2
    /\ Len(SelectSeq(txns, IsJobDebit)) = 2
    /\ (now - start_time) \div BillingInterval = 2

====
